---- MODULE Spec2Model ----
(***************************************************************************)
(* ThinkPod document ingestion and retrieval pipeline.                     *)
(*                                                                         *)
(* The store (tables documents and document_chunks with their constraints  *)
(* and triggers), DocumentService.processDocument, EmbeddingService and    *)
(* VectorSearchService are modelled as a state machine.  Every `await` of  *)
(* the TypeScript code is one step of the calling process, so that calls   *)
(* of different processes interleave exactly where the event loop lets     *)
(* them interleave.  Every store call, provider call and extraction may    *)
(* fail (db.query rethrows, the provider rejects, extractText throws).     *)
(***************************************************************************)
EXTENDS Integers, Sequences, FiniteSets, TLC

VARIABLES documents, document_chunks, nextDocId, proc

vars == <<documents, document_chunks, nextDocId, proc>>

\* ---------------------------------------------------------------- bounds
MaxDocs == 2                 \* document rows ever created in one behaviour
Procs == {1, 2}              \* concurrent callers
Uploader == CHOOSE p \in Procs : \A q \in Procs : p <= q
Client == CHOOSE p \in Procs : \A q \in Procs : q <= p
Users == {1, 2}              \* owners
Files == {1, 2}              \* distinct uploaded byte contents

NULL == 0

\* filter_document_ids / exclude_document_ids of a search
DocFilters == {<<{}, {}>>, <<{1}, {}>>, <<{}, {1}>>}

\* ------------------------------------------------------ program constants
minChunkSize == 100
defaultBatchSize == 50
maxBatchSize == 100
defaultRetryAttempts == 3
maxInputLength == 8191
costPerToken == 1            \* unit: 10^-7 USD per token
defaultModel == "text-embedding-ada-002"

\* ------------------------------------------------------------ inputs
\* What the chunking strategy yields on the text extracted from each file,
\* before post-processing: the chunk's text (an id and its trimmed length)
\* and the index the strategy gave it (chunks.length at the time of push).
RawChunk(id, len, idx) == [content |-> [id |-> id, len |-> len], chunk_index |-> idx]

StrategyChunks(f) ==
  CASE f = 1 -> <<RawChunk(1, 400, 0), RawChunk(2, 60, 1), RawChunk(3, 300, 2)>>
    [] OTHER -> <<RawChunk(4, 200, 0)>>

\* The vector the provider computes for a text (one per distinct text).
ProviderVector(content) == 10 + content.id

\* Chunk arrays handed to generateEmbeddings directly: texts of 400, 300 and
\* 200 characters, an empty text, and a text over the model's input limit
EmbedChunk(id, len, idx) == [content |-> [id |-> id, len |-> len], chunk_index |-> idx]

EmbedInputs ==
  { <<EmbedChunk(1, 400, 0)>>,
    <<EmbedChunk(1, 400, 0), EmbedChunk(3, 300, 1)>>,
    <<EmbedChunk(1, 400, 0), EmbedChunk(3, 300, 1), EmbedChunk(4, 200, 2)>>,
    <<EmbedChunk(1, 400, 0), EmbedChunk(5, 0, 1), EmbedChunk(4, 200, 2)>>,
    <<EmbedChunk(6, 40000, 0)>>,
    <<EmbedChunk(5, 0, 0)>> }

BatchSizes == {1, 2, defaultBatchSize}

\* One chunk more than the provider takes in a request, and batch sizes for it
LargeInput == [k \in 1..(maxBatchSize + 1) |-> EmbedChunk(1, 400, k - 1)]

LargeBatchSizes == {defaultBatchSize, 2 * maxBatchSize}

EmbedCalls == (EmbedInputs \X BatchSizes) \cup ({LargeInput} \X LargeBatchSizes)

\* Batch sizes no option check rejects
AnyEmbedCalls == EmbedCalls \cup (EmbedInputs \X {0, -1})

\* The retryAttempts values of those calls
AnyRetryAttempts == (-1)..defaultRetryAttempts

\* The model names a caller passes: the default and one the service has no
\* rate for
Models == {defaultModel, "custom-embedding-model"}

\* The provider calls of one generateEmbeddings call the model follows
MaxCalls == 12

\* Chunk arrays handed to estimateCost: up to MaxEstimateChunks texts of 1, 4
\* or 5 characters
MaxEstimateChunks == 3

EstimateInputs ==
  UNION {[1..n -> {[content |-> [id |-> 7, len |-> l]] : l \in {1, 4, 5}}] :
           n \in 1..MaxEstimateChunks}

\* Queries and options of the searches of SpecSearch: a query at equal
\* distance from the two chunks of file 1; a threshold with a fifth decimal
SearchQueries == {[id |-> 1, len |-> 20], [id |-> 2, len |-> 20]}

SearchThresholds == {70000, 80002}

SearchLimits == {1, 10}

SemanticOptions ==
  {[threshold |-> t, limit |-> l, filterIds |-> {}, excludeIds |-> {},
    semanticWeight |-> 10, keywordWeight |-> 0, keywordBoost |-> 0] :
     t \in SearchThresholds, l \in SearchLimits}

HybridOptions ==
  {[threshold |-> t, limit |-> l, filterIds |-> {}, excludeIds |-> {},
    semanticWeight |-> w[1], keywordWeight |-> w[2], keywordBoost |-> 12] :
     t \in SearchThresholds, l \in SearchLimits, w \in {<<7, 3>>, <<10, 0>>}}

\* ------------------------------------------------------------ helpers
Min(a, b) == IF a < b THEN a ELSE b
Max(a, b) == IF a > b THEN a ELSE b
CeilDiv(a, b) == (a + b - 1) \div b

RECURSIVE SumSeq(_)
SumSeq(s) == IF s = <<>> THEN 0 ELSE Head(s) + SumSeq(Tail(s))

\* Array.prototype.slice(start, end) on a 1-based TLA+ sequence
Slice(s, start, end) ==
  LET n  == Len(s)
      lo == IF start < 0 THEN Max(n + start, 0) ELSE Min(start, n)
      hi == IF end < 0 THEN Max(n + end, 0) ELSE Min(end, n)
  IN  IF lo < hi THEN SubSeq(s, lo + 1, hi) ELSE <<>>

\* ------------------------------------------------------------ chunker
estimateTokens(content) == CeilDiv(content.len, 4)

postProcessChunks(chunks) ==
  LET kept == SelectSeq(chunks, LAMBDA c : c.content.len >= minChunkSize)
  IN  [i \in 1..Len(kept) |-> [kept[i] EXCEPT !.chunk_index = i - 1]]

chunkText(f) ==
  LET chunks == postProcessChunks(StrategyChunks(f))
  IN  [i \in 1..Len(chunks) |->
         [content |-> chunks[i].content,
          chunk_index |-> i - 1,
          content_tokens |-> estimateTokens(chunks[i].content)]]

\* ------------------------------------------------------------ embedder
validateAndTruncateText(content) ==
  IF estimateTokens(content) <= maxInputLength
  THEN content
  ELSE [content EXCEPT !.len = maxInputLength * 4]

validateChunks(chunks) ==
  LET nonEmpty == SelectSeq(chunks, LAMBDA c : c.content.len > 0)
  IN  [i \in 1..Len(nonEmpty) |->
         [content |-> validateAndTruncateText(nonEmpty[i].content),
          chunk_index |-> nonEmpty[i].chunk_index]]

calculateCost(tokens) == tokens * costPerToken

\* usage.total_tokens the provider reports for one request
ProviderUsage(batch) ==
  SumSeq([i \in 1..Len(batch) |-> estimateTokens(validateAndTruncateText(batch[i].content))])

NoGe == [chunks |-> <<>>, batchSize |-> 0, retryAttempts |-> 0, i |-> 0,
         attempt |-> 0, allEmbeddings |-> <<>>, totalTokens |-> 0, log |-> <<>>,
         requested |-> 0, pauses |-> 0, model |-> defaultModel]

\* ------------------------------------------------------------ store
calculateFileHash(f) == 1000 + f

NoResult == [kind |-> "none", success |-> FALSE, document |-> NULL,
             embeddings |-> <<>>, totalTokens |-> 0, cost |-> 0,
             updatedChunks |-> 0, rows |-> <<>>, scores |-> <<>>]

IdleProc == [pc |-> "idle", op |-> "none", userId |-> NULL, file |-> NULL,
             contentHash |-> NULL,
             document |-> NULL, textChunks |-> <<>>, ge |-> NoGe,
             docId |-> NULL, prior |-> {},
             filterIds |-> {}, excludeIds |-> {},
             force |-> FALSE, k |-> 0, failedAt |-> "none", search |-> NULL,
             chunker |-> NULL, unlinked |-> FALSE, before |-> {},
             result |-> NoResult]

DocsByHash(hash, userId) ==
  {d \in DOMAIN documents :
     documents[d].content_hash = hash /\ documents[d].user_id = userId}

\* Documents whose creating processDocument call has returned
settled ==
  {d \in DOMAIN documents :
     ~ \E q \in Procs : proc[q].op = "processDocument" /\ proc[q].document = d}

ChunksOf(d) == {c \in document_chunks : c.document_id = d}

\* SELECT * FROM document_chunks WHERE document_id = $1 ORDER BY chunk_index
ChunksInOrder(d) ==
  [i \in 1..Cardinality(ChunksOf(d)) |->
     CHOOSE c \in ChunksOf(d) :
       Cardinality({o \in ChunksOf(d) : o.chunk_index < c.chunk_index}) = i - 1]

\* db.update('documents', id, data): no row, no change, no error
UpdateDocumentRow(id, status) ==
  IF id \in DOMAIN documents
  THEN [documents EXCEPT ![id].processing_status = status]
  ELSE documents

\* The rows of one INSERT.  A row is identified by its candidate key
\* (document_id, chunk_index); the generated uuid is not modelled.
RowsOf(insertData) == {insertData[i] : i \in 1..Len(insertData)}

\* Constraints of document_chunks: the foreign key to documents,
\* UNIQUE(document_id, chunk_index), non_negative_chunk_index and
\* non_empty_chunk_content.  One violated row rejects the whole statement.
ChunkConstraintsHold(insertData) ==
  /\ \A i \in 1..Len(insertData) :
       /\ insertData[i].document_id \in DOMAIN documents
       /\ insertData[i].chunk_index >= 0
       /\ insertData[i].content.len > 0
       /\ ~ \E c \in document_chunks :
              /\ c.document_id = insertData[i].document_id
              /\ c.chunk_index = insertData[i].chunk_index
  /\ \A i, j \in 1..Len(insertData) :
       (i # j /\ insertData[i].document_id = insertData[j].document_id)
         => insertData[i].chunk_index # insertData[j].chunk_index

\* Trigger update_chunk_count_on_insert: chunk_count + 1 per inserted row
update_document_chunk_count(docs, insertData) ==
  [d \in DOMAIN docs |->
     [docs[d] EXCEPT !.chunk_count =
        @ + Cardinality({i \in 1..Len(insertData) : insertData[i].document_id = d})]]

\* db.batchInsert('document_chunks', insertData), when the statement succeeds
batchInsert(insertData) ==
  /\ document_chunks' = document_chunks \cup RowsOf(insertData)
  /\ documents' = update_document_chunk_count(documents, insertData)

\* --------------------------------------------- processDocument, step by step
SetProc(p, r) == proc' = [proc EXCEPT ![p] = r]

\* Entering the catch block of processDocument: with no document created
\* yet it returns the failure result at once, otherwise it first awaits
\* updateDocumentStatus(document.id, 'failed')
CaughtRec(r) ==
  IF r.document = NULL
  THEN [r EXCEPT !.pc = "done", !.result = [NoResult EXCEPT !.kind = "returned"]]
  ELSE [r EXCEPT !.pc = "pd_catch", !.failedAt = r.pc]

Caught(p) == CaughtRec(proc[p])

\* How generateEmbeddings hands over to its caller
GeReturned(r) ==
  LET res == [NoResult EXCEPT !.kind = "returned", !.success = TRUE,
                              !.embeddings = r.ge.allEmbeddings,
                              !.totalTokens = r.ge.totalTokens,
                              !.cost = calculateCost(r.ge.totalTokens)]
  IN  IF r.op = "processDocument"
      THEN [r EXCEPT !.pc = "pd_store_emb", !.result = res, !.ge = NoGe]
      ELSE IF r.op = "reprocessDocument"
      THEN [r EXCEPT !.pc = "ue_update", !.result = res, !.k = 1]
      ELSE [r EXCEPT !.pc = "done", !.result = res]

GeThrown(r) ==
  IF r.op = "processDocument"
  THEN CaughtRec(r)
  ELSE [r EXCEPT !.pc = "done", !.result = [NoResult EXCEPT !.kind = "thrown"]]

processDocument(p, userId, f) ==
  /\ proc[p].pc = "idle"
  /\ SetProc(p, [IdleProc EXCEPT
                   !.pc = "pd_find", !.op = "processDocument",
                   !.userId = userId, !.file = f,
                   !.contentHash = calculateFileHash(f),
                   !.prior = DocsByHash(calculateFileHash(f), userId) \cap settled])
  /\ UNCHANGED <<documents, document_chunks, nextDocId>>

\* SELECT * FROM documents WHERE content_hash = $1 AND user_id = $2; result[0]
findDocumentByHash(p) ==
  /\ proc[p].pc = "pd_find"
  /\ \E dbOk \in BOOLEAN :
       IF ~dbOk THEN SetProc(p, Caught(p))
       ELSE LET found == DocsByHash(proc[p].contentHash, proc[p].userId)
                seen  == [proc[p] EXCEPT !.prior = @ \cap found]
            IN  IF found # {}
                THEN \E existingDoc \in found :
                       SetProc(p, [seen EXCEPT
                                     !.pc = "done",
                                     !.result = [NoResult EXCEPT !.kind = "returned",
                                                   !.success = TRUE,
                                                   !.document = existingDoc]])
                ELSE SetProc(p, [seen EXCEPT !.pc = "pd_create"])
  /\ UNCHANGED <<documents, document_chunks, nextDocId>>

createDocumentRecord(p) ==
  /\ proc[p].pc = "pd_create"
  /\ nextDocId <= MaxDocs
  /\ \E dbOk \in BOOLEAN :
       IF ~dbOk
       THEN /\ SetProc(p, Caught(p))
            /\ UNCHANGED <<documents, nextDocId>>
       ELSE /\ documents' = documents @@
                 (nextDocId :> [user_id |-> proc[p].userId,
                                content_hash |-> proc[p].contentHash,
                                title |-> 0,
                                processing_status |-> "pending",
                                chunk_count |-> 0,
                                failure |-> "none"])
            /\ nextDocId' = nextDocId + 1
            /\ SetProc(p, [proc[p] EXCEPT !.pc = "pd_processing", !.document = nextDocId])
  /\ UNCHANGED document_chunks

\* db.update('documents', id, {processing_status: status})
updateDocumentStatus(p, at, status, next) ==
  /\ proc[p].pc = at
  /\ \E dbOk \in BOOLEAN :
       IF ~dbOk
       THEN /\ SetProc(p, Caught(p))
            /\ UNCHANGED documents
       ELSE /\ documents' = UpdateDocumentRow(proc[p].document, status)
            /\ SetProc(p, [proc[p] EXCEPT !.pc = next])
  /\ UNCHANGED <<document_chunks, nextDocId>>

setProcessing(p) == updateDocumentStatus(p, "pd_processing", "processing", "pd_extract")

\* generateEmbeddings(chunks, options) up to its first provider call
StartEmbeddings(r, chunks, batchSize, retryAttempts, onThrow) ==
  LET validChunks == validateChunks(chunks)
      g == [NoGe EXCEPT !.chunks = validChunks,
                        !.batchSize = Min(batchSize, maxBatchSize),
                        !.requested = batchSize,
                        !.retryAttempts = retryAttempts,
                        !.attempt = 1]
  IN  IF Len(validChunks) = 0 \/ retryAttempts < 1
      THEN onThrow
      ELSE [r EXCEPT !.pc = "ge_call", !.ge = g]

\* A direct call generateEmbeddings(chunks, {model, batchSize, retryAttempts});
\* the model is handed to the provider with every request
generateEmbeddings(p, chunks, model, batchSize, retryAttempts) ==
  /\ proc[p].pc = "idle"
  /\ LET r == [IdleProc EXCEPT !.op = "generateEmbeddings"]
         started == StartEmbeddings(r, chunks, batchSize, retryAttempts,
                    [r EXCEPT !.pc = "done",
                              !.ge = [NoGe EXCEPT !.batchSize = Min(batchSize, maxBatchSize),
                                                  !.requested = batchSize,
                                                  !.retryAttempts = retryAttempts],
                              !.result = [NoResult EXCEPT !.kind = "thrown"]])
     IN  SetProc(p, [started EXCEPT !.ge.model = model])
  /\ UNCHANGED <<documents, document_chunks, nextDocId>>

\* textExtractor.extractText, then the synchronous chunkText and the
\* start of generateEmbeddings
extractText(p) ==
  /\ proc[p].pc = "pd_extract"
  /\ \E extracted \in BOOLEAN, withEmbeddings \in BOOLEAN :
       IF ~extracted THEN SetProc(p, Caught(p))
       ELSE LET textChunks == chunkText(proc[p].file)
                r == [proc[p] EXCEPT !.textChunks = textChunks]
            IN  IF Len(textChunks) = 0 THEN SetProc(p, Caught(p))
                ELSE IF withEmbeddings
                THEN SetProc(p, StartEmbeddings(r,
                        [i \in 1..Len(textChunks) |->
                           [content |-> textChunks[i].content,
                            chunk_index |-> textChunks[i].chunk_index]],
                        defaultBatchSize, defaultRetryAttempts, Caught(p)))
                ELSE SetProc(p, [r EXCEPT !.pc = "pd_store_plain"])
  /\ UNCHANGED <<documents, document_chunks, nextDocId>>

\* The retry loop running one attempt more than retryAttempts
MayRetry_OneMore(attempt, retryAttempts) == attempt <= retryAttempts

\* for (attempt = 1; attempt <= retryAttempts; attempt++): whether another
\* attempt follows the failed one
MayRetry(attempt, retryAttempts) == attempt < retryAttempts

\* The attempt counter carried over from one batch to the next
FirstAttempt_Carried(attempt) == attempt

\* processBatch starts its loop at attempt = 1 for every batch
FirstAttempt(attempt) == 1

\* The pause taken after the last batch too
PauseFollows_Always(i, batchSize, n) == i + batchSize <= n

\* if (i + actualBatchSize < validChunks.length) await this.delay(100)
PauseFollows(i, batchSize, n) == i + batchSize < n

\* One this.openai.embeddings.create call of processBatch, with the retry
\* loop around it and the batch loop of generateEmbeddings around that.
\* pauses counts the delays between batches; the log records each call.
embeddingsCreate(p) ==
  /\ proc[p].pc = "ge_call"
  /\ Len(proc[p].ge.log) < MaxCalls
  /\ LET g     == proc[p].ge
         batch == Slice(g.chunks, g.i, g.i + g.batchSize)
     IN  \E responded \in BOOLEAN :
           IF responded
           THEN LET usage == ProviderUsage(batch)
                    embeddings == [k \in 1..Len(batch) |->
                       [embedding |-> ProviderVector(validateAndTruncateText(batch[k].content)),
                        index |-> batch[k].chunk_index]]
                    g2 == [g EXCEPT !.allEmbeddings = @ \o embeddings,
                                    !.totalTokens = @ + usage,
                                    !.i = @ + g.batchSize,
                                    !.attempt = FirstAttempt(@),
                                    !.pauses = IF PauseFollows(g.i, g.batchSize, Len(g.chunks))
                                               THEN @ + 1 ELSE @,
                                    !.log = Append(@, [i |-> g.i, ok |-> TRUE, usage |-> usage,
                                                       n |-> Len(batch)])]
                    r2 == [proc[p] EXCEPT !.ge = g2]
                IN  IF g2.i < Len(g.chunks)
                    THEN SetProc(p, r2)
                    ELSE SetProc(p, GeReturned(r2))
           ELSE LET g2 == [g EXCEPT !.attempt = @ + 1,
                                    !.log = Append(@, [i |-> g.i, ok |-> FALSE, usage |-> 0,
                                                       n |-> Len(batch)])]
                    r2 == [proc[p] EXCEPT !.ge = g2]
                IN  IF MayRetry(g.attempt, g.retryAttempts)
                    THEN SetProc(p, r2)
                    ELSE SetProc(p, GeThrown(r2))
  /\ UNCHANGED <<documents, document_chunks, nextDocId>>

\* The insert rows numbered by the one-based position in the array
EmbeddedInsertData_OneBased(documentId, chunks, embeddings) ==
  [i \in 1..Len(chunks) |->
     [document_id |-> documentId,
      chunk_index |-> i,
      content |-> chunks[i].content,
      embedding |-> embeddings[i].embedding]]

EmbeddedInsertData(documentId, chunks, embeddings) ==
  [i \in 1..Len(chunks) |->
     [document_id |-> documentId,
      chunk_index |-> chunks[i].chunk_index,
      content |-> chunks[i].content,
      embedding |-> embeddings[i].embedding]]

PlainInsertData(documentId, chunks) ==
  [i \in 1..Len(chunks) |->
     [document_id |-> documentId,
      chunk_index |-> chunks[i].chunk_index,
      content |-> chunks[i].content,
      embedding |-> NULL]]

\* The INSERT of the chunk rows; the statement fails as a whole
InsertStep(p, insertData) ==
  \E dbOk \in BOOLEAN :
    IF dbOk /\ ChunkConstraintsHold(insertData)
    THEN /\ batchInsert(insertData)
         /\ SetProc(p, [proc[p] EXCEPT !.pc = "pd_complete"])
    ELSE /\ SetProc(p, Caught(p))
         /\ UNCHANGED <<documents, document_chunks>>

storeEmbeddings(p) ==
  /\ proc[p].pc = "pd_store_emb"
  /\ IF Len(proc[p].textChunks) # Len(proc[p].result.embeddings)
     THEN /\ SetProc(p, Caught(p))
          /\ UNCHANGED <<documents, document_chunks>>
     ELSE InsertStep(p, EmbeddedInsertData(proc[p].document, proc[p].textChunks,
                                           proc[p].result.embeddings))
  /\ UNCHANGED nextDocId

storeChunksWithoutEmbeddings(p) ==
  /\ proc[p].pc = "pd_store_plain"
  /\ InsertStep(p, PlainInsertData(proc[p].document, proc[p].textChunks))
  /\ UNCHANGED nextDocId

\* The completing update adding to chunk_count instead of setting it
CompletedRow_Adds(row, chunkCount) ==
  [row EXCEPT !.processing_status = "completed", !.chunk_count = @ + chunkCount]

\* db.update('documents', id, {processing_status: 'completed', chunk_count})
CompletedRow(row, chunkCount) ==
  [row EXCEPT !.processing_status = "completed", !.chunk_count = chunkCount]

updateDocumentProcessing(p) ==
  /\ proc[p].pc = "pd_complete"
  /\ \E dbOk \in BOOLEAN :
       IF ~dbOk
       THEN /\ SetProc(p, Caught(p))
            /\ UNCHANGED documents
       ELSE /\ documents' =
                 IF proc[p].document \in DOMAIN documents
                 THEN [documents EXCEPT ![proc[p].document] =
                         CompletedRow(@, Len(proc[p].textChunks))]
                 ELSE documents
            /\ SetProc(p, [proc[p] EXCEPT !.pc = "pd_final"])
  /\ UNCHANGED <<document_chunks, nextDocId>>

\* db.findById('documents', document.id)
findFinalDocument(p) ==
  /\ proc[p].pc = "pd_final"
  /\ \E dbOk \in BOOLEAN :
       IF ~dbOk THEN SetProc(p, Caught(p))
       ELSE SetProc(p, [proc[p] EXCEPT !.pc = "pd_chunks"])
  /\ UNCHANGED <<documents, document_chunks, nextDocId>>

\* getDocumentChunks(document.id), then the success result
getDocumentChunks(p) ==
  /\ proc[p].pc = "pd_chunks"
  /\ \E dbOk \in BOOLEAN :
       IF ~dbOk THEN SetProc(p, Caught(p))
       ELSE SetProc(p, [proc[p] EXCEPT
                          !.pc = "done",
                          !.result = [@ EXCEPT !.kind = "returned", !.success = TRUE,
                                        !.document = proc[p].document,
                                        !.rows = ChunksInOrder(proc[p].document)]])
  /\ UNCHANGED <<documents, document_chunks, nextDocId>>

\* History of a row, not a column of the table: the step of processDocument
\* whose failure made the catch block set the row to failed ("extract" for
\* extraction and chunking, "embed" for generateEmbeddings, "store" otherwise)
RecordFailure(docs, id, failedAt) ==
  IF id \in DOMAIN docs
  THEN [docs EXCEPT ![id].failure =
          CASE failedAt = "pd_extract" -> "extract"
            [] failedAt = "ge_call" -> "embed"
            [] OTHER -> "store"]
  ELSE docs

\* catch: await updateDocumentStatus(document.id, 'failed'), then the
\* failure result; an error of that update leaves the function as a throw
catchProcessing(p) ==
  /\ proc[p].pc = "pd_catch"
  /\ \E dbOk \in BOOLEAN :
       IF ~dbOk
       THEN /\ SetProc(p, [proc[p] EXCEPT !.pc = "done", !.failedAt = "none",
                             !.result = [NoResult EXCEPT !.kind = "thrown"]])
            /\ UNCHANGED documents
       ELSE /\ documents' = RecordFailure(UpdateDocumentRow(proc[p].document, "failed"),
                                          proc[p].document, proc[p].failedAt)
            /\ SetProc(p, [proc[p] EXCEPT !.pc = "done", !.failedAt = "none",
                             !.result = [NoResult EXCEPT !.kind = "returned",
                                           !.document = proc[p].document]])
  /\ UNCHANGED <<document_chunks, nextDocId>>

\* EmbeddingService.estimateCost: synchronous, the tokens of each chunk
\* rounded up on their own
estimatedTokens(chunks) ==
  SumSeq([i \in 1..Len(chunks) |-> CeilDiv(chunks[i].content.len, 4)])

estimateCost(p, chunks) ==
  /\ proc[p].pc = "idle"
  /\ SetProc(p, [IdleProc EXCEPT
                   !.pc = "done", !.op = "estimateCost", !.textChunks = chunks,
                   !.result = [NoResult EXCEPT
                                 !.kind = "returned", !.success = TRUE,
                                 !.totalTokens = estimatedTokens(chunks),
                                 !.cost = calculateCost(estimatedTokens(chunks))]])
  /\ UNCHANGED <<documents, document_chunks, nextDocId>>

\* The caller takes the result; the process is free for its next call
Return(p) ==
  /\ proc[p].pc = "done"
  /\ SetProc(p, IdleProc)
  /\ UNCHANGED <<documents, document_chunks, nextDocId>>

\* ------------------------------------------------------------ retriever
\* 1 - cosine distance, in units of 10^-5, between two provider vectors
Similarity(a, b) ==
  LET d == IF a > b THEN a - b ELSE b - a
  IN  Max(100000 - 19997 * d, 0)

\* ts_rank_cd of a chunk text against the query terms, in units of 10^-5;
\* 0 when to_tsvector(content) @@ to_tsquery(terms) is false
TsRank(query, content) == IF content.id = query.id + 2 THEN 30000 ELSE 0

Query == [id |-> 1, len |-> 20]

generateQueryEmbedding(query) == ProviderVector(validateAndTruncateText(query))

\* Options of a search.  threshold is in units of 10^-5, the weights and the
\* boost are in tenths.
SemanticDefaults(filterIds, excludeIds) ==
  [threshold |-> 70000, limit |-> 10, filterIds |-> filterIds, excludeIds |-> excludeIds,
   semanticWeight |-> 10, keywordWeight |-> 0, keywordBoost |-> 0]

HybridDefaults(filterIds, excludeIds) ==
  [threshold |-> 50000, limit |-> 10, filterIds |-> filterIds, excludeIds |-> excludeIds,
   semanticWeight |-> 7, keywordWeight |-> 3, keywordBoost |-> 12]

\* The WHERE clause without its test of the document's status
SearchScope_AnyStatus(userId, filterIds, excludeIds) ==
  {c \in document_chunks :
     /\ c.document_id \in DOMAIN documents
     /\ documents[c.document_id].user_id = userId
     /\ c.embedding # NULL
     /\ (filterIds # {} => c.document_id \in filterIds)
     /\ (excludeIds # {} => c.document_id \notin excludeIds)}

\* The WHERE clause shared by semanticSearch and the semantic_scores CTE,
\* with the document-id filters
SearchScope(userId, filterIds, excludeIds) ==
  {c \in document_chunks :
     /\ c.document_id \in DOMAIN documents
     /\ documents[c.document_id].user_id = userId
     /\ documents[c.document_id].processing_status = "completed"
     /\ c.embedding # NULL
     /\ (filterIds # {} => c.document_id \in filterIds)
     /\ (excludeIds # {} => c.document_id \notin excludeIds)}

\* ORDER BY score DESC LIMIT n: every order the statement may return (no
\* second sort key: rows of equal score come in any order); score is the
\* function giving each row its sort key
TopRows(rows, score, limit) ==
  LET n == Min(limit, Cardinality(rows))
  IN  {s \in [1..n -> rows] :
         /\ \A i, j \in 1..n : i < j => (s[i] # s[j] /\ score[s[i]] >= score[s[j]])
         /\ \A r \in rows : (\A i \in 1..n : s[i] # r) =>
                              \A i \in 1..n : score[s[i]] >= score[r]}

SemanticRows(userId, q, threshold, limit, filterIds, excludeIds) ==
  LET scope == SearchScope(userId, filterIds, excludeIds)
      rows == {c \in scope : Similarity(q, c.embedding) >= threshold}
  IN  TopRows(rows, [c \in rows |-> Similarity(q, c.embedding)], limit)

\* blended score in units of 10^-7: weights and boost are given in tenths
HybridScore(q, query, c, semanticWeight, keywordWeight, keywordBoost) ==
  Similarity(q, c.embedding) * semanticWeight * 10
    + TsRank(query, c.content) * keywordBoost * keywordWeight

HybridRows(userId, q, query, opts) ==
  LET scope == SearchScope(userId, opts.filterIds, opts.excludeIds)
      rows == {c \in scope : Similarity(q, c.embedding) >= opts.threshold}
  IN  TopRows(rows,
              [c \in rows |-> HybridScore(q, query, c, opts.semanticWeight,
                                          opts.keywordWeight, opts.keywordBoost)],
              opts.limit)

\* Math.round(similarity_score * 10000) / 10000, as a count of 10^-4;
\* perTenThousandth is the number of units of score in 10^-4
formatSearchResult(score, perTenThousandth) ==
  (2 * score + perTenThousandth) \div (2 * perTenThousandth)

\* The response of a search, or the error it rethrows.  seen is the set of
\* rows the statement's WHERE clause admitted before the threshold.
SearchDone(p, kind, userId, query, opts, found, scores, failed) ==
  SetProc(p, [IdleProc EXCEPT
                !.pc = "done", !.op = "search", !.userId = userId,
                !.filterIds = opts.filterIds, !.excludeIds = opts.excludeIds,
                !.search = [kind |-> kind, query |-> query, opts |-> opts,
                            seen |-> SearchScope(userId, opts.filterIds, opts.excludeIds)],
                !.result = IF failed THEN [NoResult EXCEPT !.kind = "thrown"]
                           ELSE [NoResult EXCEPT !.kind = "returned", !.success = TRUE,
                                                 !.rows = found, !.scores = scores]])

\* generateQueryEmbedding, then the one SELECT, then formatSearchResult
semanticSearch(p, userId, query, opts) ==
  /\ proc[p].pc = "idle"
  /\ \E ok \in BOOLEAN :
       IF ~ok THEN SearchDone(p, "semantic", userId, query, opts, <<>>, <<>>, TRUE)
       ELSE LET q == generateQueryEmbedding(query)
            IN  \E found \in SemanticRows(userId, q, opts.threshold, opts.limit,
                                          opts.filterIds, opts.excludeIds) :
                  SearchDone(p, "semantic", userId, query, opts, found,
                    [k \in 1..Len(found) |->
                       formatSearchResult(Similarity(q, found[k].embedding), 10)],
                    FALSE)
  /\ UNCHANGED <<documents, document_chunks, nextDocId>>

hybridSearch(p, userId, query, opts) ==
  /\ proc[p].pc = "idle"
  /\ \E ok \in BOOLEAN :
       IF ~ok THEN SearchDone(p, "hybrid", userId, query, opts, <<>>, <<>>, TRUE)
       ELSE LET q == generateQueryEmbedding(query)
            IN  \E found \in HybridRows(userId, q, query, opts) :
                  SearchDone(p, "hybrid", userId, query, opts, found,
                    [k \in 1..Len(found) |->
                       formatSearchResult(
                         HybridScore(q, query, found[k], opts.semanticWeight,
                                     opts.keywordWeight, opts.keywordBoost), 1000)],
                    FALSE)
  /\ UNCHANGED <<documents, document_chunks, nextDocId>>

\* ------------------------------------------------- deleteDocument, updateDocument
OwnedBy(documentId, userId) ==
  documentId \in DOMAIN documents /\ documents[documentId].user_id = userId

Finish(p, kind, success) ==
  SetProc(p, [proc[p] EXCEPT !.pc = "done",
                !.result = [NoResult EXCEPT !.kind = kind, !.success = success]])

\* The access check of deleteDocument and updateDocument:
\* SELECT ... FROM documents WHERE id = $1 AND user_id = $2
StartManage(p, op, documentId, userId, next) ==
  /\ proc[p].pc = "idle"
  /\ \E dbOk \in BOOLEAN :
       LET r == [IdleProc EXCEPT !.op = op, !.userId = userId, !.docId = documentId]
       IN  IF ~dbOk
           THEN SetProc(p, [r EXCEPT !.pc = "done",
                              !.result = [NoResult EXCEPT !.kind = "thrown"]])
           ELSE IF ~OwnedBy(documentId, userId)
           THEN SetProc(p, [r EXCEPT !.pc = "done",
                              !.result = [NoResult EXCEPT !.kind = "returned"]])
           ELSE SetProc(p, [r EXCEPT !.pc = next])
  /\ UNCHANGED <<documents, document_chunks, nextDocId>>

deleteDocument(p, documentId, userId) ==
  StartManage(p, "deleteDocument", documentId, userId, "del_delete")

\* A foreign key that leaves the chunk rows of a deleted document behind
CascadeDelete_None(documentId) == document_chunks

\* document_id REFERENCES documents(id) ON DELETE CASCADE
CascadeDelete(documentId) == document_chunks \ ChunksOf(documentId)

\* DELETE FROM documents WHERE id = $1, cascading to document_chunks
deleteRow(p) ==
  /\ proc[p].pc = "del_delete"
  /\ \E dbOk \in BOOLEAN :
       IF ~dbOk
       THEN /\ Finish(p, "thrown", FALSE)
            /\ UNCHANGED <<documents, document_chunks>>
       ELSE /\ documents' = [d \in DOMAIN documents \ {proc[p].docId} |-> documents[d]]
            /\ document_chunks' = CascadeDelete(proc[p].docId)
            /\ SetProc(p, [proc[p] EXCEPT !.pc = "del_unlink"])
  /\ UNCHANGED nextDocId

\* fs.unlink(file_path) inside its own try/catch: a failure is logged and
\* the call returns true all the same
unlinkFile(p) ==
  /\ proc[p].pc = "del_unlink"
  /\ \E fileOk \in BOOLEAN :
       SetProc(p, [proc[p] EXCEPT !.pc = "done", !.unlinked = fileOk,
                     !.result = [NoResult EXCEPT !.kind = "returned", !.success = TRUE]])
  /\ UNCHANGED <<documents, document_chunks, nextDocId>>

updateDocument(p, documentId, userId) ==
  StartManage(p, "updateDocument", documentId, userId, "upd_update")

\* db.update('documents', documentId, {title})
updateRow(p) ==
  /\ proc[p].pc = "upd_update"
  /\ \E dbOk \in BOOLEAN :
       IF ~dbOk
       THEN /\ Finish(p, "thrown", FALSE)
            /\ UNCHANGED documents
       ELSE /\ documents' = IF proc[p].docId \in DOMAIN documents
                            THEN [documents EXCEPT ![proc[p].docId].title = 1]
                            ELSE documents
            /\ Finish(p, "returned", proc[p].docId \in DOMAIN documents)
  /\ UNCHANGED <<document_chunks, nextDocId>>

\* ------------------------------------------------------ findSimilarDocuments
\* calculateAverageEmbedding: the sum of the vectors and their number; the
\* average is sum / n
calculateAverageEmbedding(embeddings) ==
  [sum |-> SumSeq(embeddings), n |-> Len(embeddings)]

\* 1 - (embedding <=> avg), in units of 10^-5
AverageSimilarity(avg, b) ==
  LET d == IF avg.sum > avg.n * b THEN avg.sum - avg.n * b ELSE avg.n * b - avg.sum
  IN  Max(100000 - (19997 * d) \div avg.n, 0)

\* WHERE d.user_id = $2 AND d.id != $3 AND d.processing_status = 'completed'
\* AND dc.embedding IS NOT NULL, grouped by document
SimilarCandidates(userId, documentId) ==
  {d \in DOMAIN documents :
     /\ documents[d].user_id = userId
     /\ d # documentId
     /\ documents[d].processing_status = "completed"
     /\ \E c \in ChunksOf(d) : c.embedding # NULL}

\* AVG(1 - (dc.embedding <=> $1)) over the embedded chunks of document d
DocumentSimilarity(avg, d) ==
  LET rows == SelectSeq(ChunksInOrder(d), LAMBDA c : c.embedding # NULL)
  IN  SumSeq([k \in 1..Len(rows) |-> AverageSimilarity(avg, rows[k].embedding)])
        \div Len(rows)

\* HAVING AVG(...) > 0.6 ORDER BY similarity_score DESC LIMIT $4
SimilarRows(userId, documentId, avg, limit) ==
  LET rows == {d \in SimilarCandidates(userId, documentId) :
                 DocumentSimilarity(avg, d) > 60000}
  IN  TopRows(rows, [d \in rows |-> DocumentSimilarity(avg, d)], limit)

\* The first statement of findSimilarDocuments: SELECT embedding FROM
\* document_chunks WHERE document_id = $1 ORDER BY chunk_index LIMIT 3, and
\* the average of what it returns.  owned records whether the source
\* document was the caller's; the code never asks.
findSimilarDocuments(p, documentId, userId, limit) ==
  /\ proc[p].pc = "idle"
  /\ \E dbOk \in BOOLEAN :
       LET chunks == ChunksInOrder(documentId)
           sourceChunks == SubSeq(chunks, 1, Min(3, Len(chunks)))
           embeddings == [k \in 1..Len(sourceChunks) |-> sourceChunks[k].embedding]
           r == [IdleProc EXCEPT !.op = "findSimilarDocuments", !.userId = userId,
                                 !.docId = documentId, !.k = limit,
                                 !.search = [kind |-> "similar",
                                             owned |-> OwnedBy(documentId, userId),
                                             avg |-> NULL]]
       IN  IF ~dbOk \/ \E k \in 1..Len(embeddings) : embeddings[k] = NULL
           THEN SetProc(p, [r EXCEPT !.pc = "done",
                              !.result = [NoResult EXCEPT !.kind = "thrown"]])
           ELSE IF Len(sourceChunks) = 0
           THEN SetProc(p, [r EXCEPT !.pc = "done",
                              !.result = [NoResult EXCEPT !.kind = "returned",
                                                          !.success = TRUE]])
           ELSE SetProc(p, [r EXCEPT !.pc = "fs_query",
                              !.search.avg = calculateAverageEmbedding(embeddings)])
  /\ UNCHANGED <<documents, document_chunks, nextDocId>>

\* The second statement: the similar documents of the caller
selectSimilarDocuments(p) ==
  /\ proc[p].pc = "fs_query"
  /\ \E dbOk \in BOOLEAN :
       IF ~dbOk
       THEN SetProc(p, [proc[p] EXCEPT !.pc = "done",
                          !.result = [NoResult EXCEPT !.kind = "thrown"]])
       ELSE \E found \in SimilarRows(proc[p].userId, proc[p].docId,
                                      proc[p].search.avg, proc[p].k) :
              SetProc(p, [proc[p] EXCEPT !.pc = "done",
                            !.result = [NoResult EXCEPT
                               !.kind = "returned", !.success = TRUE,
                               !.rows = found,
                               !.scores = [k \in 1..Len(found) |->
                                  DocumentSimilarity(proc[p].search.avg, found[k])]]])
  /\ UNCHANGED <<documents, document_chunks, nextDocId>>

\* ------------------------------------- reprocessDocument, updateEmbeddings
\* A status check that lets every document through
StatusAllows_Any(processing_status, force) == TRUE

\* if (document.processing_status !== 'completed' && !force) throw
StatusAllows(processing_status, force) ==
  ~(processing_status # "completed" /\ ~force)

\* The access and status check of reprocessDocument; the error it throws
\* is rethrown by its catch block.  before keeps the document's chunk rows
\* as they were when the call began.
reprocessDocument(p, documentId, userId, force) ==
  /\ proc[p].pc = "idle"
  /\ \E dbOk \in BOOLEAN :
       LET r == [IdleProc EXCEPT !.op = "reprocessDocument", !.userId = userId,
                                 !.docId = documentId, !.force = force,
                                 !.before = ChunksOf(documentId)]
           thrown == [r EXCEPT !.pc = "done",
                               !.result = [NoResult EXCEPT !.kind = "thrown"]]
       IN  IF ~dbOk \/ ~OwnedBy(documentId, userId)
           THEN SetProc(p, thrown)
           ELSE IF ~StatusAllows(documents[documentId].processing_status, force)
           THEN SetProc(p, thrown)
           ELSE SetProc(p, [r EXCEPT !.pc = "ue_select"])
  /\ UNCHANGED <<documents, document_chunks, nextDocId>>

\* The filter that never drops a row
ChunksToUpdate_All(chunks, forceRegenerate) == chunks

\* forceRegenerate ? chunks : chunks.filter(chunk => !chunk.embedding || ...)
ChunksToUpdate(chunks, forceRegenerate) ==
  IF forceRegenerate THEN chunks
  ELSE SelectSeq(chunks, LAMBDA c : c.embedding = NULL)

\* updateEmbeddings up to its first provider call: the SELECT of the
\* document's chunks, the filter, the start of generateEmbeddings
selectChunksToUpdate(p) ==
  /\ proc[p].pc = "ue_select"
  /\ \E dbOk \in BOOLEAN :
       LET thrown == [proc[p] EXCEPT !.pc = "done",
                                     !.result = [NoResult EXCEPT !.kind = "thrown"]]
           nothing == [proc[p] EXCEPT !.pc = "done",
                         !.result = [NoResult EXCEPT !.kind = "returned", !.success = TRUE]]
           chunks == ChunksInOrder(proc[p].docId)
           chunksToUpdate == ChunksToUpdate(chunks, proc[p].force)
       IN  IF ~dbOk THEN SetProc(p, thrown)
           ELSE IF Len(chunks) = 0 \/ Len(chunksToUpdate) = 0 THEN SetProc(p, nothing)
           ELSE SetProc(p, StartEmbeddings(
                   [proc[p] EXCEPT !.textChunks = chunksToUpdate],
                   [i \in 1..Len(chunksToUpdate) |->
                      [content |-> chunksToUpdate[i].content,
                       chunk_index |-> chunksToUpdate[i].chunk_index]],
                   defaultBatchSize, defaultRetryAttempts, thrown))
  /\ UNCHANGED <<documents, document_chunks, nextDocId>>

\* db.update('document_chunks', chunk.id, {embedding}): no row, no change
UpdateChunkRow(chunk, embedding) ==
  {IF c.document_id = chunk.document_id /\ c.chunk_index = chunk.chunk_index
   THEN [c EXCEPT !.embedding = embedding] ELSE c : c \in document_chunks}

\* The vector of the following chunk paired with chunk i
EmbeddingFor_Next(embeddings, i) == embeddings[(i % Len(embeddings)) + 1]

\* const embedding = batchResult.embeddings[i]
EmbeddingFor(embeddings, i) == embeddings[i]

\* A trigger that counts an updated chunk row as a new one
ChunkCountOnUpdate_Counted(docs, documentId) ==
  [d \in DOMAIN docs |->
     IF d = documentId THEN [docs[d] EXCEPT !.chunk_count = @ + 1] ELSE docs[d]]

\* The triggers on document_chunks fire AFTER INSERT and AFTER DELETE: an
\* UPDATE of a chunk row leaves the documents table as it is
ChunkCountOnUpdate(docs, documentId) == docs

\* One iteration of the update loop of updateEmbeddings; after the last
\* one the result {updatedChunks, cost}
updateChunkEmbedding(p) ==
  /\ proc[p].pc = "ue_update"
  /\ \E dbOk \in BOOLEAN :
       IF ~dbOk
       THEN /\ SetProc(p, [proc[p] EXCEPT !.pc = "done",
                             !.result = [NoResult EXCEPT !.kind = "thrown"]])
            /\ UNCHANGED <<documents, document_chunks>>
       ELSE /\ document_chunks' =
                 UpdateChunkRow(proc[p].textChunks[proc[p].k],
                                EmbeddingFor(proc[p].result.embeddings, proc[p].k).embedding)
            /\ documents' = ChunkCountOnUpdate(documents, proc[p].docId)
            /\ IF proc[p].k < Len(proc[p].textChunks)
               THEN SetProc(p, [proc[p] EXCEPT !.k = @ + 1])
               ELSE SetProc(p, [proc[p] EXCEPT !.pc = "done",
                                  !.result = [@ EXCEPT
                                     !.updatedChunks = Len(proc[p].textChunks)]])
  /\ UNCHANGED nextDocId

\* ------------------------------------------------------ TextChunker on texts
\* A text is a sequence of characters.  Each character is a record: c is the
\* character, at is its position in the text handed to chunkText (0 for a
\* character the chunker inserts), a history variable that takes no part in
\* any decision of the chunker.
Whitespace == {" ", "\n", "\t", "\r"}
UpperCase == {"A", "B", "C", "D"}
LowerCase == {"a", "b", "c", "d", "e", "f", "g", "h", "i", "j", "r", "x"}

Tag(chars) == [i \in 1..Len(chars) |-> [c |-> chars[i], at |-> i]]
Inserted(chars) == [i \in 1..Len(chars) |-> [c |-> chars[i], at |-> 0]]
Chars(text) == [i \in 1..Len(text) |-> text[i].c]

\* The characters of text at the positions where keep is TRUE, in order
Filter(text, keep) ==
  LET idx == SelectSeq([i \in 1..Len(text) |-> i], LAMBDA i : keep[i])
  IN  [k \in 1..Len(idx) |-> text[idx[k]]]

\* String.prototype.trim
trim(text) ==
  LET solid == {i \in 1..Len(text) : text[i].c \notin Whitespace}
  IN  IF solid = {} THEN <<>>
      ELSE SubSeq(text, CHOOSE i \in solid : \A j \in solid : i <= j,
                        CHOOSE i \in solid : \A j \in solid : j <= i)

\* String.prototype.substring(from, to) with 0-based, end-exclusive indices
substring(text, from, to) == SubSeq(text, from + 1, to)

preprocessText(text) ==
  LET n0 == Len(text)
      \* .replace(/\r\n/g, '\n')
      t1 == Filter(text, [i \in 1..n0 |->
                ~(text[i].c = "\r" /\ i < n0 /\ text[IF i < n0 THEN i + 1 ELSE i].c = "\n")])
      \* .replace(/\r/g, '\n')
      t2 == [i \in 1..Len(t1) |-> IF t1[i].c = "\r" THEN [t1[i] EXCEPT !.c = "\n"] ELSE t1[i]]
      \* .replace(/[ \t]+/g, ' ')
      blank == [i \in 1..Len(t2) |-> t2[i].c \in {" ", "\t"}]
      t3 == Filter([i \in 1..Len(t2) |-> IF blank[i] THEN [t2[i] EXCEPT !.c = " "] ELSE t2[i]],
                   [i \in 1..Len(t2) |-> ~(blank[i] /\ i > 1 /\ blank[IF i > 1 THEN i - 1 ELSE i])])
      \* .replace(/\n{3,}/g, '\n\n')
      t4 == Filter(t3, [i \in 1..Len(t3) |->
                ~(i > 2 /\ t3[i].c = "\n" /\ t3[IF i > 2 THEN i - 1 ELSE i].c = "\n"
                         /\ t3[IF i > 2 THEN i - 2 ELSE i].c = "\n")])
  IN  trim(t4)

Lowest(S) == CHOOSE i \in S : \A j \in S : i <= j
Highest(S) == CHOOSE i \in S : \A j \in S : j <= i

\* The positions of 1..n where member is TRUE, in increasing order
Positions(n, member) == SelectSeq([i \in 1..n |-> i], LAMBDA i : member[i])

\* text.split(/\n\s*\n/).filter(p => p.trim().length > 0), each piece trimmed
\* as the loop of chunkByParagraphs does.  A match of the expression runs from
\* the first to the last line feed of a stretch of whitespace holding two.
splitParagraphs(text) ==
  LET n == Len(text)
      feeds == {i \in 1..n : text[i].c = "\n"}
      cut == [i \in 1..n |->
                /\ text[i].c \in Whitespace
                /\ \E a, b \in feeds :
                     a < b /\ a <= i /\ i <= b /\ \A k \in a..b : text[k].c \in Whitespace]
      starts == Positions(n, [i \in 1..n |-> ~cut[i] /\ (i = 1 \/ cut[IF i > 1 THEN i - 1 ELSE i])])
      ends == Positions(n, [i \in 1..n |-> ~cut[i] /\ (i = n \/ cut[IF i < n THEN i + 1 ELSE i])])
      pieces == [k \in 1..Len(starts) |-> trim(SubSeq(text, starts[k], ends[k]))]
  IN  SelectSeq(pieces, LAMBDA piece : Len(piece) > 0)

abbreviations ==
  { <<"D", "r">>, <<"M", "r">>, <<"M", "r", "s">>, <<"M", "s">>, <<"P", "r", "o", "f">>,
    <<"S", "r">>, <<"J", "r">>, <<"v", "s">>, <<"e", "t", "c">>, <<"I", "n", "c">>,
    <<"L", "t", "d">>, <<"C", "o", "r", "p">> }

\* position is the 1-based place of the punctuation mark
getWordBefore(text, position) ==
  LET solid == {j \in 1..(position - 1) : text[j].c \notin Whitespace}
      start == IF solid = {} THEN 0 ELSE Highest(solid)
      other == {j \in 1..start : text[j].c \notin (UpperCase \cup LowerCase)}
      wordStart == IF other = {} THEN 0 ELSE Highest(other)
  IN  Chars(SubSeq(text, wordStart + 1, start))

isSentenceEnd(text, position) ==
  LET solid == {j \in (position + 1)..Len(text) : text[j].c \notin Whitespace}
  IN  IF solid = {} THEN TRUE
      ELSE IF text[Lowest(solid)].c \notin UpperCase THEN FALSE
      ELSE getWordBefore(text, position) \notin abbreviations

splitIntoSentences(text) ==
  LET n == Len(text)
      ends == Positions(n, [i \in 1..n |->
                 text[i].c \in {".", "!", "?"} /\ isSentenceEnd(text, i)])
      m == Len(ends)
      closed == [k \in 1..m |->
                   trim(SubSeq(text, IF k = 1 THEN 1 ELSE ends[k - 1] + 1, ends[k]))]
      current == trim(SubSeq(text, IF m = 0 THEN 1 ELSE ends[m] + 1, n))
      sentences == IF Len(current) > 0 THEN Append(closed, current) ELSE closed
  IN  SelectSeq(sentences, LAMBDA sentence : Len(sentence) > 0)

\* The 0-based index of the first place where needle occurs in text, -1 if none
indexOf(text, needle) ==
  LET at == {i \in 0..(Len(text) - Len(needle)) :
               \A k \in 1..Len(needle) : text[i + k].c = needle[k]}
  IN  IF at = {} THEN -1 ELSE Lowest(at)

\* The 0-based index of the last place, at or before fromIndex, where needle
\* occurs in text, -1 if none
lastIndexOf(text, needle, fromIndex) ==
  LET at == {i \in 0..Min(fromIndex, Len(text) - Len(needle)) :
               \A k \in 1..Len(needle) : text[i + k].c = needle[k]}
  IN  IF at = {} THEN -1 ELSE Highest(at)

getOverlapText(text, overlapSize) ==
  IF Len(text) <= overlapSize THEN text
  ELSE LET overlap == substring(text, Len(text) - overlapSize, Len(text))
           \* overlap.search(/[.!?]\s+/)
           marks == {i \in 0..(Len(overlap) - 2) :
                       /\ overlap[i + 1].c \in {".", "!", "?"}
                       /\ overlap[i + 2].c \in Whitespace}
           sentenceStart == IF marks = {} THEN -1 ELSE Lowest(marks)
           spaceIndex == indexOf(overlap, <<" ">>)
       IN  IF sentenceStart # -1 /\ 2 * sentenceStart < overlapSize
           THEN substring(overlap, sentenceStart + 2, Len(overlap))
           ELSE IF spaceIndex # -1
           THEN substring(overlap, spaceIndex + 1, Len(overlap))
           ELSE overlap

createChunk(content, index, type) ==
  [content |-> content, chunk_index |-> index, content_tokens |-> 0, chunk_type |-> type]

\* The loop and the final push shared by chunkByParagraphs (joiner "\n\n")
\* and chunkBySentences (joiner " "): units are trimmed already
\* The final chunk pushed although it is exactly minChunkSize long or shorter
pushFinal_StrictMinimum(currentChunk, chunks, type, options) ==
  IF Len(trim(currentChunk)) > options.minChunkSize
  THEN Append(chunks, createChunk(trim(currentChunk), Len(chunks), type))
  ELSE chunks

\* "Add final chunk if it exists"
pushFinal(currentChunk, chunks, type, options) ==
  IF Len(trim(currentChunk)) >= options.minChunkSize
  THEN Append(chunks, createChunk(trim(currentChunk), Len(chunks), type))
  ELSE chunks

RECURSIVE packUnits(_, _, _, _, _, _, _)
packUnits(units, k, currentChunk, chunks, joiner, type, options) ==
  IF k > Len(units)
  THEN pushFinal(currentChunk, chunks, type, options)
  ELSE IF /\ Len(currentChunk) > 0
          /\ Len(currentChunk) + Len(units[k]) + Len(joiner) > options.maxChunkSize
  THEN LET overlap == getOverlapText(currentChunk, options.chunkOverlap)
       IN  packUnits(units, k + 1,
                     IF Len(overlap) > 0 THEN overlap \o Inserted(joiner) \o units[k]
                                         ELSE units[k],
                     Append(chunks, createChunk(trim(currentChunk), Len(chunks), type)),
                     joiner, type, options)
  ELSE packUnits(units, k + 1,
                 IF Len(currentChunk) > 0 THEN currentChunk \o Inserted(joiner) \o units[k]
                                          ELSE units[k],
                 chunks, joiner, type, options)

chunkByParagraphs(text, options) ==
  packUnits(splitParagraphs(text), 1, <<>>, <<>>, <<"\n", "\n">>, "paragraph", options)

chunkBySentences(text, options) ==
  packUnits(splitIntoSentences(text), 1, <<>>, <<>>, <<" ">>, "sentence", options)

\* start and maxEnd are 0-based
findBestBreakpoint(text, start, maxEnd, separators) ==
  LET found == {k \in 1..Len(separators) : lastIndexOf(text, separators[k], maxEnd) > start}
  IN  IF found = {} THEN maxEnd
      ELSE lastIndexOf(text, separators[Lowest(found)], maxEnd)
             + Len(separators[Lowest(found)])

RECURSIVE sizeLoop(_, _, _, _)
sizeLoop(text, position, chunks, options) ==
  IF position >= Len(text) THEN chunks
  ELSE LET windowEnd == Min(position + options.maxChunkSize, Len(text))
           boundary == findBestBreakpoint(text, position, windowEnd, options.separators)
           chunkEnd == IF windowEnd < Len(text) /\ boundary > position + options.minChunkSize
                       THEN boundary ELSE windowEnd
           chunkContent == trim(substring(text, position, chunkEnd))
       IN  sizeLoop(text, Max(chunkEnd - options.chunkOverlap, position + 1),
                    IF Len(chunkContent) >= options.minChunkSize
                    THEN Append(chunks, createChunk(chunkContent, Len(chunks), "arbitrary"))
                    ELSE chunks,
                    options)

chunkBySize(text, options) == sizeLoop(text, 0, <<>>, options)

defaultOptions ==
  [maxChunkSize |-> 1000, chunkOverlap |-> 100, preserveSentences |-> TRUE,
   preserveParagraphs |-> TRUE, minChunkSize |-> minChunkSize,
   separators |-> << <<"\n", "\n">>, <<"\n">>, <<".", " ">>, <<"!", " ">>, <<"?", " ">>,
                     <<";", " ">>, <<",", " ">>, <<" ">> >>]

TextChunker_postProcessChunks(chunks, options) ==
  LET kept == SelectSeq(chunks, LAMBDA chunk : Len(trim(chunk.content)) >= options.minChunkSize)
  IN  [i \in 1..Len(kept) |->
         [kept[i] EXCEPT !.chunk_index = i - 1, !.content = trim(kept[i].content)]]

\* { ...this.defaultOptions, ...options }: options holds the fields the caller gives
mergeOptions(options) ==
  [f \in DOMAIN defaultOptions |->
     IF f \in DOMAIN options THEN options[f] ELSE defaultOptions[f]]

TextChunker_chunkText(text, options) ==
  LET opts == mergeOptions(options)
      cleanedText == preprocessText(text)
      chunks == IF opts.preserveParagraphs THEN chunkByParagraphs(cleanedText, opts)
                ELSE IF opts.preserveSentences THEN chunkBySentences(cleanedText, opts)
                ELSE chunkBySize(cleanedText, opts)
      processed == TextChunker_postProcessChunks(chunks, opts)
  IN  IF Len(text) = 0 \/ Len(trim(text)) = 0 THEN <<>>
      ELSE [i \in 1..Len(processed) |->
              [processed[i] EXCEPT !.chunk_index = i - 1,
                                   !.content_tokens = CeilDiv(Len(processed[i].content), 4)]]

\* ---- texts and options handed to chunkText
Pieces ==
  { <<"A", "b", ".">>, <<"c", "d">>, <<" ">>, <<"\n", "\n">>, <<"D", "r", ".">>,
    <<"e", "f", "g", "h", "i", "j">>, <<"\t">>, <<"\r", "\n">> }

MaxPieces == 3

RECURSIVE Concat(_)
Concat(parts) == IF Len(parts) = 0 THEN <<>> ELSE Head(parts) \o Concat(Tail(parts))

PieceTexts ==
  {Concat(parts) : parts \in UNION {[1..n -> Pieces] : n \in 1..MaxPieces}}

ExampleSentences == <<"A", ".", " ", "B", ".", " ", "C", ".">>

ExampleLength == 2600

\* Texts of ExampleLength characters without a line feed: one word, and prose
ExampleWord == [i \in 1..ExampleLength |-> "x"]
ExampleProse ==
  LET sentence == <<"A", "b", "c", "d", " ", "e", "f", "g", "h", ".", " ">>
  IN  [i \in 1..ExampleLength |-> sentence[((i - 1) % Len(sentence)) + 1]]

Strategies ==
  { [preserveParagraphs |-> TRUE, preserveSentences |-> TRUE],
    [preserveParagraphs |-> FALSE, preserveSentences |-> TRUE],
    [preserveParagraphs |-> FALSE, preserveSentences |-> FALSE] }

SmallOptions ==
  { [maxChunkSize |-> sizes[1], chunkOverlap |-> sizes[2], minChunkSize |-> sizes[3],
     preserveParagraphs |-> s.preserveParagraphs, preserveSentences |-> s.preserveSentences] :
      sizes \in {<<8, 3, 2>>, <<8, 0, 3>>, <<20, 2, 1>>}, s \in Strategies }

\* The option records of the documented calls, and the same with other fields set
ExampleOptions ==
  { [maxChunkSize |-> 1000, preserveSentences |-> TRUE],
    [maxChunkSize |-> 1000, chunkOverlap |-> 100] }

OtherOptions ==
  { [maxChunkSize |-> 1000, preserveSentences |-> TRUE, minChunkSize |-> 1],
    [maxChunkSize |-> 1000, chunkOverlap |-> 100, preserveParagraphs |-> FALSE],
    [maxChunkSize |-> 1000, chunkOverlap |-> 100, preserveParagraphs |-> FALSE,
     preserveSentences |-> FALSE] }

ChunkCalls ==
  (PieceTexts \X SmallOptions)
    \cup ({ExampleSentences} \X (ExampleOptions \cup OtherOptions))
    \cup ({ExampleWord, ExampleProse} \X ExampleOptions)

\* A call of chunkText and its return
callChunkText(p, text, options) ==
  /\ proc[p].pc = "idle"
  /\ SetProc(p, [IdleProc EXCEPT
                   !.pc = "done", !.op = "chunkText",
                   !.chunker = [text |-> Tag(text), options |-> options,
                                chunks |-> TextChunker_chunkText(Tag(text), options)],
                   !.result = [NoResult EXCEPT !.kind = "returned", !.success = TRUE]])
  /\ UNCHANGED <<documents, document_chunks, nextDocId>>

Init ==
  /\ documents = [d \in {} |-> NULL]
  /\ document_chunks = {}
  /\ nextDocId = 1
  /\ proc = [p \in Procs |-> IdleProc]

\* Two concurrent uploads
Next ==
  \E p \in Procs :
    \/ \E u \in Users, f \in Files : processDocument(p, u, f)
    \/ findDocumentByHash(p)
    \/ createDocumentRecord(p)
    \/ setProcessing(p)
    \/ extractText(p)
    \/ embeddingsCreate(p)
    \/ storeEmbeddings(p)
    \/ storeChunksWithoutEmbeddings(p)
    \/ updateDocumentProcessing(p)
    \/ findFinalDocument(p)
    \/ getDocumentChunks(p)
    \/ catchProcessing(p)
    \/ Return(p)

Spec == Init /\ [][Next]_vars

\* One upload pipeline running concurrently with a client that searches,
\* renames and deletes
NextClient ==
  \/ \E u \in Users : processDocument(Uploader, u, 1)
  \/ findDocumentByHash(Uploader)
  \/ createDocumentRecord(Uploader)
  \/ setProcessing(Uploader)
  \/ extractText(Uploader)
  \/ embeddingsCreate(Uploader)
  \/ storeEmbeddings(Uploader)
  \/ storeChunksWithoutEmbeddings(Uploader)
  \/ updateDocumentProcessing(Uploader)
  \/ findFinalDocument(Uploader)
  \/ getDocumentChunks(Uploader)
  \/ catchProcessing(Uploader)
  \/ \E u \in Users, ids \in DocFilters :
       semanticSearch(Client, u, Query, SemanticDefaults(ids[1], ids[2]))
  \/ \E u \in Users, ids \in DocFilters :
       hybridSearch(Client, u, Query, HybridDefaults(ids[1], ids[2]))
  \/ \E d \in 1..MaxDocs, u \in Users : deleteDocument(Client, d, u)
  \/ deleteRow(Client)
  \/ unlinkFile(Client)
  \/ \E d \in 1..MaxDocs, u \in Users : updateDocument(Client, d, u)
  \/ updateRow(Client)
  \/ \E p \in Procs : Return(p)

SpecClient == Init /\ [][NextClient]_vars

\* Direct calls of the embedder, one at a time
NextEmbed ==
  \/ \E call \in EmbedCalls, model \in Models, retryAttempts \in 0..defaultRetryAttempts :
       generateEmbeddings(Uploader, call[1], model, call[2], retryAttempts)
  \/ embeddingsCreate(Uploader)
  \/ Return(Uploader)

SpecEmbed == Init /\ [][NextEmbed]_vars

\* Direct calls of the embedder with any batchSize and retryAttempts
NextEmbedAny ==
  \/ /\ proc[Uploader].pc = "idle"
     /\ \E call \in AnyEmbedCalls, retryAttempts \in AnyRetryAttempts :
          generateEmbeddings(Uploader, call[1], defaultModel, call[2], retryAttempts)
  \/ embeddingsCreate(Uploader)
  \/ Return(Uploader)

SpecEmbedAny == Init /\ [][NextEmbedAny]_vars

\* One upload pipeline running concurrently with a client that reprocesses
NextReprocess ==
  \/ \E u \in Users : processDocument(Uploader, u, 1)
  \/ findDocumentByHash(Uploader)
  \/ createDocumentRecord(Uploader)
  \/ setProcessing(Uploader)
  \/ extractText(Uploader)
  \/ embeddingsCreate(Uploader)
  \/ storeEmbeddings(Uploader)
  \/ storeChunksWithoutEmbeddings(Uploader)
  \/ updateDocumentProcessing(Uploader)
  \/ findFinalDocument(Uploader)
  \/ getDocumentChunks(Uploader)
  \/ catchProcessing(Uploader)
  \/ \E d \in 1..MaxDocs, u \in Users, force \in BOOLEAN :
       reprocessDocument(Client, d, u, force)
  \/ selectChunksToUpdate(Client)
  \/ embeddingsCreate(Client)
  \/ updateChunkEmbedding(Client)
  \/ \E p \in Procs : Return(p)

SpecReprocess == Init /\ [][NextReprocess]_vars

\* A caller that uploads and runs semantic searches, and a caller that runs
\* hybrid searches
NextSearch ==
  \/ \E u \in Users : processDocument(Uploader, u, 1)
  \/ findDocumentByHash(Uploader)
  \/ createDocumentRecord(Uploader)
  \/ setProcessing(Uploader)
  \/ extractText(Uploader)
  \/ embeddingsCreate(Uploader)
  \/ storeEmbeddings(Uploader)
  \/ storeChunksWithoutEmbeddings(Uploader)
  \/ updateDocumentProcessing(Uploader)
  \/ findFinalDocument(Uploader)
  \/ getDocumentChunks(Uploader)
  \/ catchProcessing(Uploader)
  \/ \E u \in Users, query \in SearchQueries, opts \in SemanticOptions :
       semanticSearch(Uploader, u, query, opts)
  \/ \E u \in Users, query \in SearchQueries, opts \in HybridOptions :
       hybridSearch(Client, u, query, opts)
  \/ \E p \in Procs : Return(p)

SpecSearch == Init /\ [][NextSearch]_vars

\* One upload pipeline and a client that asks for similar documents
SimilarLimits == {1, 5}

NextSimilar ==
  \/ \E u \in Users : processDocument(Uploader, u, 1)
  \/ findDocumentByHash(Uploader)
  \/ createDocumentRecord(Uploader)
  \/ setProcessing(Uploader)
  \/ extractText(Uploader)
  \/ embeddingsCreate(Uploader)
  \/ storeEmbeddings(Uploader)
  \/ storeChunksWithoutEmbeddings(Uploader)
  \/ updateDocumentProcessing(Uploader)
  \/ findFinalDocument(Uploader)
  \/ getDocumentChunks(Uploader)
  \/ catchProcessing(Uploader)
  \/ \E d \in 1..MaxDocs, u \in Users, limit \in SimilarLimits :
       findSimilarDocuments(Client, d, u, limit)
  \/ selectSimilarDocuments(Client)
  \/ \E p \in Procs : Return(p)

SpecSimilar == Init /\ [][NextSimilar]_vars

\* Cost estimates asked for by two callers
NextEstimate ==
  \E p \in Procs :
    \/ \E chunks \in EstimateInputs : estimateCost(p, chunks)
    \/ Return(p)

SpecEstimate == Init /\ [][NextEstimate]_vars

\* chunkText called on texts
NextChunk ==
  \/ /\ proc[Uploader].pc = "idle"
     /\ \E call \in ChunkCalls : callChunkText(Uploader, call[1], call[2])
  \/ Return(Uploader)

SpecChunk == Init /\ [][NextChunk]_vars

\* ============================================================ properties
Calls(p) == proc[p].pc = "done" /\ proc[p].op = "processDocument"

\* C1: a processDocument call that starts after a document for the same owner
\* and bytes was created (its creating call has returned) and whose lookup
\* succeeds returns the id of that document.
C1_DedupReturnsTheCreatedDocument ==
  \A p \in Procs :
    (Calls(p) /\ proc[p].result.kind = "returned" /\ proc[p].result.success)
      => \A d \in proc[p].prior : proc[p].result.document = d

\* C2: at most one document row exists per (owner, content hash).
C2_OneDocumentPerOwnerAndHash ==
  \A d1, d2 \in DOMAIN documents :
    (documents[d1].user_id = documents[d2].user_id
       /\ documents[d1].content_hash = documents[d2].content_hash) => d1 = d2

StatusMachine ==
  {<<"pending", "processing">>, <<"processing", "completed">>, <<"processing", "failed">>}

\* C3: every change of a document's processing_status is pending -> processing,
\* processing -> completed or processing -> failed.
C3_StatusOnlyMovesAlongTheStateMachine ==
  [][\A d \in DOMAIN documents \cap DOMAIN documents' :
       documents[d].processing_status # documents'[d].processing_status
         => <<documents[d].processing_status, documents'[d].processing_status>>
              \in StatusMachine]_vars

\* C4: a processDocument call that failed after it created its document row
\* returns (does not throw) with success = false, and the row's status is failed.
C4_FailureAfterCreationIsReturned ==
  \A p \in Procs :
    (Calls(p) /\ proc[p].document # NULL /\ ~proc[p].result.success)
      => /\ proc[p].result.kind = "returned"
         /\ proc[p].document \in DOMAIN documents
         /\ documents[proc[p].document].processing_status = "failed"

\* C5: a document whose status is failed has no chunk rows.
C5_FailedDocumentHasNoChunks ==
  \A d \in DOMAIN documents :
    documents[d].processing_status = "failed" => ChunksOf(d) = {}

C7_ChunkIndicesAreContiguous ==
  \A d \in DOMAIN documents :
    /\ {c.chunk_index : c \in ChunksOf(d)} = 0..(Cardinality(ChunksOf(d)) - 1)
    /\ \A c1, c2 \in ChunksOf(d) : c1.chunk_index = c2.chunk_index => c1 = c2

\* the document of file 1, whose strategy chunks 0 and 2 survive the
\* size filter, stored with embeddings as rows 0 and 1
C7_Witness ==
  \E d \in DOMAIN documents :
    /\ documents[d].content_hash = calculateFileHash(1)
    /\ Cardinality(ChunksOf(d)) = 2
    /\ \A c \in ChunksOf(d) : c.embedding # NULL

\* ----- the provider calls of a finished generateEmbeddings call
GeDone(p) == proc[p].pc = "done" /\ proc[p].op = "generateEmbeddings"

\* the calls made for the batch that starts at offset i, in order
CallsFor(p, i) == SelectSeq(proc[p].ge.log, LAMBDA e : e.i = i)

Failures(calls) == Len(SelectSeq(calls, LAMBDA e : ~e.ok))

BatchOffsets(p) ==
  {i \in 0..(Len(proc[p].ge.chunks) - 1) : i % proc[p].ge.batchSize = 0}

CalledOffsets(p) == {proc[p].ge.log[k].i : k \in 1..Len(proc[p].ge.log)}

\* k failures followed by one success, k < retryAttempts
FailedThenSucceeded(calls, retryAttempts) ==
  /\ calls # <<>>
  /\ calls[Len(calls)].ok
  /\ \A k \in 1..(Len(calls) - 1) : ~calls[k].ok
  /\ Len(calls) - 1 < retryAttempts

SuccessfulUsage(log) ==
  SumSeq([k \in 1..Len(log) |-> IF log[k].ok THEN log[k].usage ELSE 0])

\* C8: when on every batch the provider failed fewer than retryAttempts times
\* before it succeeded, generateEmbeddings returns successfully, each batch
\* was called exactly failures + 1 times, and totalTokens is the sum of the
\* usage of the successful responses.
C8_RetryThenSuccess ==
  \A p \in Procs :
    (GeDone(p) /\ proc[p].ge.log # <<>>
       /\ \A i \in CalledOffsets(p) : Failures(CallsFor(p, i)) < proc[p].ge.retryAttempts)
      => /\ proc[p].result.kind = "returned" /\ proc[p].result.success
         /\ CalledOffsets(p) = BatchOffsets(p)
         /\ \A i \in BatchOffsets(p) :
              FailedThenSucceeded(CallsFor(p, i), proc[p].ge.retryAttempts)
         /\ proc[p].result.totalTokens = SuccessfulUsage(proc[p].ge.log)
         /\ Len(proc[p].result.embeddings) = Len(proc[p].ge.chunks)

\* two batches, the second answered on the third attempt with retryAttempts = 3
C8_Witness ==
  /\ GeDone(Uploader)
  /\ proc[Uploader].ge.retryAttempts = 3
  /\ Cardinality(BatchOffsets(Uploader)) = 2
  /\ Failures(CallsFor(Uploader, 0)) = 0
  /\ Failures(CallsFor(Uploader, 2)) = 2
  /\ proc[Uploader].result.success
  /\ proc[Uploader].result.totalTokens = 100 + 75 + 50

\* C9: when the provider failed retryAttempts times in a row on a batch,
\* generateEmbeddings throws, hands no embedding to its caller, has issued no
\* call for a later batch, and called the failing batch at most retryAttempts
\* times.
C9_ExhaustedRetriesFailTheCall ==
  \A p \in Procs :
    GeDone(p) =>
      \A i \in CalledOffsets(p) :
        (\E k \in 1..Len(CallsFor(p, i)) :
            /\ k >= proc[p].ge.retryAttempts
            /\ \A j \in (k - proc[p].ge.retryAttempts + 1)..k : ~CallsFor(p, i)[j].ok)
          => /\ proc[p].result.kind = "thrown"
             /\ proc[p].result.embeddings = <<>>
             /\ \A j \in CalledOffsets(p) : j <= i
             /\ Len(CallsFor(p, i)) <= proc[p].ge.retryAttempts

\* the first batch succeeded, the second failed three times out of three
C9_Witness ==
  /\ GeDone(Uploader)
  /\ proc[Uploader].ge.retryAttempts = 3
  /\ Cardinality(BatchOffsets(Uploader)) = 3
  /\ Failures(CallsFor(Uploader, 0)) = 0
  /\ Failures(CallsFor(Uploader, 1)) = 3
  /\ proc[Uploader].result.kind = "thrown"

\* C10: every row a semanticSearch or hybridSearch returns for an owner is, in
\* the state the query ran in, a chunk row with a non-null embedding of a
\* completed document of that owner, inside filter_document_ids and outside
\* exclude_document_ids when these are given.
C10_SearchReturnsOnlyEligibleChunks ==
  [][\A p \in Procs :
       (proc[p].pc = "idle" /\ proc'[p].pc = "done" /\ proc'[p].op = "search"
          /\ proc'[p].result.kind = "returned")
         => \A k \in 1..Len(proc'[p].result.rows) :
              LET c == proc'[p].result.rows[k]
              IN  /\ c \in document_chunks
                  /\ c.embedding # NULL
                  /\ c.document_id \in DOMAIN documents
                  /\ documents[c.document_id].user_id = proc'[p].userId
                  /\ documents[c.document_id].processing_status = "completed"
                  /\ (proc'[p].filterIds # {} => c.document_id \in proc'[p].filterIds)
                  /\ (proc'[p].excludeIds # {} => c.document_id \notin proc'[p].excludeIds)]_vars

\* a search that returned rows while the other owner's document, its
\* embedded chunk rows already stored, was still being ingested
C10_Witness ==
  /\ proc[Client].pc = "done" /\ proc[Client].op = "search"
  /\ Len(proc[Client].result.rows) >= 1
  /\ proc[Uploader].pc \in {"pd_complete", "pd_catch"}
  /\ \E c \in document_chunks :
       /\ c.embedding # NULL
       /\ c.document_id = proc[Uploader].document
       /\ documents[c.document_id].user_id # proc[Client].userId
       /\ documents[c.document_id].processing_status = "processing"

\* C20: when a processDocument call that created a document row has ended,
\* the row's status is completed or failed.
C20_EndedCallLeavesTerminalStatus ==
  \A p \in Procs :
    (Calls(p) /\ proc[p].document # NULL /\ proc[p].document \in DOMAIN documents)
      => documents[proc[p].document].processing_status \in {"completed", "failed"}

TotalCharacters(chunks) == SumSeq([i \in 1..Len(chunks) |-> chunks[i].content.len])

\* C19: of two estimateCost results, the one for the chunk list with at least
\* as many characters in total has at least as many estimatedTokens and at
\* least as large an estimatedCost.
C19_EstimateIsMonotoneInCharacters ==
  \A p, q \in Procs :
    (proc[p].pc = "done" /\ proc[p].op = "estimateCost"
       /\ proc[q].pc = "done" /\ proc[q].op = "estimateCost"
       /\ TotalCharacters(proc[q].textChunks) >= TotalCharacters(proc[p].textChunks))
      => /\ proc[q].result.totalTokens >= proc[p].result.totalTokens
         /\ proc[q].result.cost >= proc[p].result.cost

\* C14: a processDocument call that starts after a call for the same owner
\* and bytes ended with its document failed at extraction or chunking does
\* not end by handing back that failed document: it runs the pipeline again
\* on a row of its own.
C14_ResubmissionRunsThePipelineAgain ==
  \A p \in Procs :
    (Calls(p) /\ proc[p].result.kind = "returned" /\ proc[p].result.success
       /\ proc[p].result.document \in proc[p].prior
       /\ proc[p].result.document \in DOMAIN documents
       /\ documents[proc[p].result.document].processing_status = "failed"
       /\ documents[proc[p].result.document].failure = "extract")
      => proc[p].document # NULL

AllEmbedded(d) == \A c \in ChunksOf(d) : c.embedding # NULL

\* C13: when a reprocessDocument call with force = false has passed its
\* check (the document is the owner's and completed) and reads the chunks of
\* a document all of whose chunks carry an embedding, it returns with
\* updatedChunks = 0 and cost = 0, has made no provider call, and changes no
\* chunk row.
C13_NothingToReprocess ==
  [][\A p \in Procs :
       (proc[p].pc = "ue_select" /\ ~proc[p].force /\ AllEmbedded(proc[p].docId)
          /\ proc'[p] # proc[p] /\ proc'[p].result.kind # "thrown")
         => /\ proc'[p].pc = "done"
            /\ proc'[p].result.kind = "returned"
            /\ proc'[p].result.updatedChunks = 0
            /\ proc'[p].result.cost = 0
            /\ proc'[p].ge.log = <<>>
            /\ document_chunks' = document_chunks]_vars

\* such a call, returned, on a completed document with two embedded chunks
C13_Witness ==
  /\ proc[Client].pc = "done" /\ proc[Client].op = "reprocessDocument"
  /\ ~proc[Client].force
  /\ proc[Client].result.kind = "returned"
  /\ proc[Client].result.updatedChunks = 0
  /\ proc[Client].docId \in DOMAIN documents
  /\ documents[proc[Client].docId].processing_status = "completed"
  /\ Cardinality(ChunksOf(proc[Client].docId)) = 2
  /\ AllEmbedded(proc[Client].docId)

\* C15: a reprocessDocument call with force = true that returns, on a document
\* that processDocument left failed because generateEmbeddings failed, has
\* called the provider, and the document's chunks carry embeddings.
C15_ForcedReprocessRetriesEmbedding ==
  \A p \in Procs :
    (proc[p].pc = "done" /\ proc[p].op = "reprocessDocument" /\ proc[p].force
       /\ proc[p].result.kind = "returned"
       /\ proc[p].docId \in DOMAIN documents
       /\ documents[proc[p].docId].processing_status = "failed"
       /\ documents[proc[p].docId].failure = "embed")
      => /\ proc[p].ge.log # <<>>
         /\ ChunksOf(proc[p].docId) # {}
         /\ AllEmbedded(proc[p].docId)

Searched(p, kind) ==
  /\ proc[p].pc = "done" /\ proc[p].op = "search"
  /\ proc[p].result.kind = "returned"
  /\ proc[p].search.kind = kind

\* C11: a semanticSearch response has at most limit results, their
\* similarity_score values are non-increasing, and each similarity_score is
\* at least the requested threshold.
C11_SemanticResultsBoundedSortedAboveThreshold ==
  \A p \in Procs :
    Searched(p, "semantic") =>
      LET scores == proc[p].result.scores
      IN  /\ Len(proc[p].result.rows) <= proc[p].search.opts.limit
          /\ \A i, j \in 1..Len(scores) : i < j => scores[i] >= scores[j]
          /\ \A i \in 1..Len(scores) : scores[i] * 10 >= proc[p].search.opts.threshold

\* C12: a hybridSearch with keywordWeight = 0 and semanticWeight = 1 and a
\* semanticSearch, for the same owner, query, threshold and limit over the
\* same stored rows, return the same chunks in the same order.
C12_HybridWithoutKeywordsEqualsSemantic ==
  \A p, q \in Procs :
    (Searched(p, "semantic") /\ Searched(q, "hybrid")
       /\ proc[q].search.opts.keywordWeight = 0
       /\ proc[q].search.opts.semanticWeight = 10
       /\ proc[q].userId = proc[p].userId
       /\ proc[q].search.query = proc[p].search.query
       /\ proc[q].search.opts.threshold = proc[p].search.opts.threshold
       /\ proc[q].search.opts.limit = proc[p].search.opts.limit
       /\ proc[q].search.seen = proc[p].search.seen)
      => proc[q].result.rows = proc[p].result.rows

Chunked(p) == proc[p].pc = "done" /\ proc[p].op = "chunkText"

\* The places, in the text handed to chunkText, of the characters of text
\* that are not whitespace, in the order they have in text
Solid(text) ==
  LET kept == SelectSeq(text, LAMBDA ch : ch.c \notin Whitespace)
  IN  [i \in 1..Len(kept) |-> kept[i].at]

Contains(chars, part) ==
  \E i \in 0..(Len(chars) - Len(part)) : SubSeq(chars, i + 1, i + Len(part)) = part

\* C16: the chunks chunkText returns cover every character of the normalized
\* text that is not whitespace, but for a fragment at the end of the text
\* that is shorter than minChunkSize.
C16_ChunksCoverTheText ==
  \A p \in Procs :
    Chunked(p) =>
      LET cleaned == preprocessText(proc[p].chunker.text)
          chunks == proc[p].chunker.chunks
          covered == UNION {{chunks[k].content[i].at : i \in 1..Len(chunks[k].content)} :
                              k \in 1..Len(chunks)}
          missing == {i \in 1..Len(cleaned) :
                        cleaned[i].c \notin Whitespace /\ cleaned[i].at \notin covered}
      IN  missing # {} =>
            Len(cleaned) - Lowest(missing) + 1
              < mergeOptions(proc[p].chunker.options).minChunkSize

\* C17: chunkText on a text of 2,600 characters without a paragraph break,
\* with maxChunkSize = 1000, chunkOverlap = 100 and the other options at their
\* defaults, returns 3 chunks of at most 1000 characters each, and chunk 2
\* starts with the last characters (100 at most) of chunk 1.
C17_LongTextYieldsThreeBoundedOverlappingChunks ==
  \A p \in Procs :
    (/\ Chunked(p)
     /\ Len(proc[p].chunker.text) = 2600
     /\ Len(splitParagraphs(preprocessText(proc[p].chunker.text))) = 1
     /\ mergeOptions(proc[p].chunker.options) = defaultOptions
     /\ defaultOptions.maxChunkSize = 1000 /\ defaultOptions.chunkOverlap = 100)
      => LET chunks == proc[p].chunker.chunks
         IN  /\ Len(chunks) = 3
             /\ \A k \in 1..Len(chunks) : Len(chunks[k].content) <= 1000
             /\ \E n \in 1..100 :
                  /\ n <= Len(chunks[1].content) /\ n <= Len(chunks[2].content)
                  /\ Chars(SubSeq(chunks[2].content, 1, n))
                       = Chars(SubSeq(chunks[1].content,
                                      Len(chunks[1].content) - n + 1, Len(chunks[1].content)))

\* C18 as stated: chunkText("A. B. C.", {maxChunkSize: 1000, preserveSentences:
\* true}) returns one chunk that contains the three sentences, and every text
\* that is not blank and is shorter than maxChunkSize yields one chunk that
\* contains each of its sentences.
C18_ShortTextYieldsOneChunk ==
  \A p \in Procs :
    (/\ Chunked(p)
     /\ Len(trim(proc[p].chunker.text)) > 0
     /\ Len(proc[p].chunker.text) < mergeOptions(proc[p].chunker.options).maxChunkSize)
      => LET chunks == proc[p].chunker.chunks
             sentences == splitIntoSentences(preprocessText(proc[p].chunker.text))
         IN  /\ Len(chunks) = 1
             /\ \A k \in 1..Len(sentences) :
                  Contains(Chars(chunks[1].content), Chars(sentences[k]))

\* C18, amended: a text that is not blank and is shorter than maxChunkSize,
\* chunked with preserveParagraphs, yields at most one chunk: none when its
\* normalized text is shorter than minChunkSize, exactly one when it has at
\* least minChunkSize characters that are not whitespace; the chunk holds
\* every character of the text that is not whitespace, in order, and for
\* "A. B. C." it is "A. B. C.".
C18_ShortTextYieldsAtMostOneWholeChunk ==
  \A p \in Procs :
    (/\ Chunked(p)
     /\ Len(trim(proc[p].chunker.text)) > 0
     /\ Len(proc[p].chunker.text) < mergeOptions(proc[p].chunker.options).maxChunkSize
     /\ mergeOptions(proc[p].chunker.options).preserveParagraphs)
      => LET chunks == proc[p].chunker.chunks
             cleaned == preprocessText(proc[p].chunker.text)
             minimum == mergeOptions(proc[p].chunker.options).minChunkSize
         IN  /\ Len(chunks) <= 1
             /\ Len(Solid(cleaned)) >= minimum => Len(chunks) = 1
             /\ Len(cleaned) < minimum => Len(chunks) = 0
             /\ \A k \in 1..Len(chunks) :
                  /\ Solid(chunks[k].content) = Solid(cleaned)
                  /\ Chars(proc[p].chunker.text) = ExampleSentences
                       => Chars(chunks[k].content) = ExampleSentences

C18_Witness ==
  \E p \in Procs :
    /\ Chunked(p)
    /\ Chars(proc[p].chunker.text) = ExampleSentences
    /\ proc[p].chunker.options =
         [maxChunkSize |-> 1000, preserveSentences |-> TRUE, minChunkSize |-> 1]
    /\ Len(proc[p].chunker.chunks) = 1

\* ----- a generateEmbeddings call under way or finished
Embedding(p) == proc[p].op = "generateEmbeddings" /\ proc[p].pc \in {"ge_call", "done"}

\* C21: the provider calls of a generateEmbeddings call are made one after
\* another; each is for the next min(batchSize, 100) validated chunks (or the
\* rest), the first starts at chunk 0, a call follows a failed call on the same
\* batch and a successful call on the batch right after it; a finished call
\* has covered every chunk once, in input order; a pause was taken after every
\* successful batch but the last.
C21_BatchesAreConsecutiveAndSequential ==
  \A p \in Procs :
    Embedding(p) =>
      LET g == proc[p].ge
          log == g.log
          n == Len(g.chunks)
          size == Min(g.requested, maxBatchSize)
          done == {k \in 1..Len(log) : log[k].ok}
      IN  /\ \A k \in 1..Len(log) :
                /\ log[k].n >= 1 /\ log[k].n <= size
                /\ log[k].n = Min(size, n - log[k].i)
                /\ k = 1 => log[k].i = 0
                /\ k > 1 => log[k].i = IF log[k - 1].ok THEN log[k - 1].i + log[k - 1].n
                                       ELSE log[k - 1].i
          /\ g.pauses = Cardinality({k \in done : log[k].i + log[k].n < n})
          /\ (proc[p].pc = "done" /\ proc[p].result.kind = "returned") =>
                /\ SumSeq([k \in 1..Len(log) |-> IF log[k].ok THEN log[k].n ELSE 0]) = n
                /\ [k \in 1..Len(proc[p].result.embeddings) |-> proc[p].result.embeddings[k].index]
                     = [k \in 1..n |-> g.chunks[k].chunk_index]
                /\ g.pauses = Cardinality(done) - 1

\* 101 chunks with batchSize 200: a batch of 100, a pause, a batch of 1
C21_Witness ==
  /\ GeDone(Uploader)
  /\ proc[Uploader].result.kind = "returned"
  /\ proc[Uploader].ge.requested = 2 * maxBatchSize
  /\ Len(proc[Uploader].ge.chunks) = maxBatchSize + 1
  /\ proc[Uploader].ge.pauses = 1
  /\ \E k \in 1..Len(proc[Uploader].ge.log) : ~proc[Uploader].ge.log[k].ok

\* C22: every chunk chunkText returns is at most maxChunkSize characters long,
\* unless it is exactly one paragraph (paragraph strategy) or one sentence
\* (sentence strategy) of the normalized text that is itself longer than
\* maxChunkSize.
C22_ChunksStayUnderMaxChunkSize ==
  \A p \in Procs :
    Chunked(p) =>
      LET opts == mergeOptions(proc[p].chunker.options)
          cleaned == preprocessText(proc[p].chunker.text)
          units == IF opts.preserveParagraphs THEN splitParagraphs(cleaned)
                   ELSE IF opts.preserveSentences THEN splitIntoSentences(cleaned)
                   ELSE <<>>
          chunks == proc[p].chunker.chunks
      IN  \A k \in 1..Len(chunks) :
            \/ Len(chunks[k].content) <= opts.maxChunkSize
            \/ \E u \in 1..Len(units) : units[u] = chunks[k].content

\* C23: no step of a reprocessDocument call, from its entry to its return or
\* its error, changes the processing_status or the chunk_count of any
\* document, whatever the value of force.
C23_ReprocessKeepsDocumentStatus ==
  [][\A p \in Procs :
       (proc'[p] # proc[p] /\ proc'[p].op = "reprocessDocument")
         => /\ DOMAIN documents' = DOMAIN documents
            /\ \A d \in DOMAIN documents :
                  /\ documents'[d].processing_status = documents[d].processing_status
                  /\ documents'[d].chunk_count = documents[d].chunk_count]_vars

\* a forced call that has rewritten both chunks of a document that is not
\* completed
C23_Witness ==
  /\ proc[Client].pc = "done" /\ proc[Client].op = "reprocessDocument"
  /\ proc[Client].force
  /\ proc[Client].result.kind = "returned"
  /\ proc[Client].result.updatedChunks = 2
  /\ proc[Client].docId \in DOMAIN documents
  /\ documents[proc[Client].docId].processing_status # "completed"

\* C24: a reprocessDocument call for a document id that does not exist or
\* belongs to another owner, with any force, and a call with force = false
\* for a document whose status is not completed, ends in an error at its
\* first step, with no provider call and no change to any row.
C24_RefusedReprocessChangesNothing ==
  [][\A p \in Procs :
       (/\ proc[p].pc = "idle" /\ proc'[p] # proc[p]
        /\ proc'[p].op = "reprocessDocument"
        /\ \/ ~OwnedBy(proc'[p].docId, proc'[p].userId)
           \/ /\ ~proc'[p].force
              /\ documents[proc'[p].docId].processing_status # "completed")
         => /\ proc'[p].pc = "done"
            /\ proc'[p].result.kind = "thrown"
            /\ proc'[p].ge.log = <<>>
            /\ documents' = documents
            /\ document_chunks' = document_chunks]_vars

\* an unforced call refused for the owner's failed document that has chunks
C24_Witness ==
  /\ proc[Client].pc = "done" /\ proc[Client].op = "reprocessDocument"
  /\ ~proc[Client].force
  /\ proc[Client].result.kind = "thrown"
  /\ OwnedBy(proc[Client].docId, proc[Client].userId)
  /\ documents[proc[Client].docId].processing_status = "failed"
  /\ ChunksOf(proc[Client].docId) # {}
  /\ proc[Client].ge.log = <<>>

\* C25: a deleteDocument call that returns true leaves neither the document
\* row nor any chunk row of the document, also when the unlink of the file
\* failed, and the rows stay absent afterwards; a call for a document id that
\* does not exist or belongs to another owner returns false at its first
\* step and changes no row.
C25_DeleteRemovesDocumentAndChunks ==
  [][\A p \in Procs :
       /\ (proc'[p].pc = "done" /\ proc'[p].op = "deleteDocument"
             /\ proc'[p].result.kind = "returned" /\ proc'[p].result.success)
            => /\ proc'[p].docId \notin DOMAIN documents'
               /\ \A c \in document_chunks' : c.document_id # proc'[p].docId
       /\ (/\ proc[p].pc = "idle" /\ proc'[p] # proc[p]
           /\ proc'[p].op = "deleteDocument"
           /\ ~OwnedBy(proc'[p].docId, proc'[p].userId)
           /\ proc'[p].result.kind # "thrown")
            => /\ proc'[p].pc = "done"
               /\ proc'[p].result.kind = "returned"
               /\ ~proc'[p].result.success
               /\ documents' = documents
               /\ document_chunks' = document_chunks]_vars

\* a call that returned true although the unlink failed, while the call
\* that had stored the document's chunks is still running
C25_Witness ==
  /\ proc[Client].pc = "done" /\ proc[Client].op = "deleteDocument"
  /\ proc[Client].result.kind = "returned" /\ proc[Client].result.success
  /\ ~proc[Client].unlinked
  /\ proc[Uploader].document = proc[Client].docId
  /\ proc[Uploader].pc \in {"pd_complete", "pd_catch"}

\* C26: a findSimilarDocuments call that returns documents was made for a
\* source document of the caller: a call for a document of another owner
\* computes nothing from that document's vectors.
C26_SimilarDocumentsOnlyFromOwnSource ==
  \A p \in Procs :
    (proc[p].pc = "done" /\ proc[p].op = "findSimilarDocuments"
       /\ proc[p].result.kind = "returned" /\ proc[p].result.rows # <<>>)
      => proc[p].search.owned

\* the per-token rate the service knows for a model, in units of 10^-7 USD
KnownRate(model) == IF model = defaultModel THEN costPerToken ELSE 0

\* C27: the cost a generateEmbeddings call returns is totalTokens times the
\* per-token rate of the model the call used, and zero for a model the
\* service has no rate for.
C27_CostUsesTheRateOfTheModel ==
  \A p \in Procs :
    (GeDone(p) /\ proc[p].result.kind = "returned")
      => proc[p].result.cost = proc[p].result.totalTokens * KnownRate(proc[p].ge.model)

\* retryAttempts calls for each batch of min(batchSize, 100) chunks and,
\* for a batchSize under 1, the most any batch size allows: one batch per
\* chunk
MostCalls(n, batchSize, retryAttempts) ==
  (IF batchSize >= 1 THEN CeilDiv(n, Min(batchSize, maxBatchSize)) ELSE n)
    * Max(retryAttempts, 0)

\* C30: at every point of a generateEmbeddings call on N valid chunks the
\* provider calls made so far number at most ceil(N / batchSize) *
\* retryAttempts, batchSize taken as the size in effect, and at most
\* N * retryAttempts when batchSize is zero or negative, so that the call
\* ends for every option value.
C30_ProviderCallsAreBounded ==
  \A p \in Procs :
    Embedding(p) =>
      Len(proc[p].ge.log) <=
        MostCalls(Len(proc[p].ge.chunks), proc[p].ge.requested, proc[p].ge.retryAttempts)

C29_FailedReprocessChangesNoEmbedding ==
  \A p \in Procs :
    (proc[p].pc = "done" /\ proc[p].op = "reprocessDocument"
       /\ proc[p].result.kind = "thrown")
      => \A c \in proc[p].before : c \in document_chunks

====
